---- MODULE Spec2Model ----
(***************************************************************************)
(* AShootingGameCharacter (ShootingGameCharacter.h / .cpp): one character  *)
(* actor as it exists on the authority (server) and on a client.  Each     *)
(* participant runs its own copy of the actor; Server RPCs travel from the *)
(* client to the server, NetMulticast RPCs run on the server and travel to *)
(* the client, and the Replicated properties are pushed from the server.   *)
(***************************************************************************)
EXTENDS Integers, Sequences, FiniteSets, TLC

\* ------------------------------------------------------------- bounds
MaxQueue == 2
MaxEvents == 4
MaxRetry == 2

\* --------------------------------------------------------- the world
Server == "server"
Clients == {"client"}
Participants == {Server} \cup Clients

NULL == "null"
\* AWeapon instances: they implement IWeaponInterface.
Weapons == {"w1", "w2"}
\* Any other AActor that may be handed to SetEquipWeapon.
Props == {"prop"}
Items == Weapons \cup Props

RpcTrigger == "Trigger"
RpcC == "C"
RpcReload == "Reload"
Rpcs == {RpcTrigger, RpcC, RpcReload}

HpValues == {-1, 0, 1}
DamageValues == {0, 25}
PitchValues == {0, 45}
Bindings == {"weapon", "health"}
NoRetry == [checks |-> 0, cameAt |-> -1, binds |-> << >>]
NoTag == [issued |-> "none", validated |-> "none"]
UbOutcomes == {"crash", "continue"}
NoRelaySeq ==
    [ issued |-> [o \in Participants |-> [r \in Rpcs |-> 0]],
      reqIds |-> [c \in Clients |-> << >>],
      resIds |-> [c \in Clients |-> << >>],
      answered |-> [o \in Participants |-> [r \in Rpcs |-> << >>]],
      dropped |-> [o \in Participants |-> {}],
      handled |-> [p \in Participants |-> [o \in Participants |-> [r \in Rpcs |-> << >>]]] ]
NoOwnerLog == [owner |-> [w \in Items |-> NULL], shown |-> {}, started |-> FALSE,
               sets |-> 0, dropped |-> {}]

VARIABLES
    EquipWeapon,          \* [Participants -> Items \cup {NULL}], Replicated
    ControlPitch,         \* [Participants -> PitchValues], Replicated
    IsRagdoll,            \* [Participants -> BOOLEAN]
    mesh,                 \* [Participants -> [SimulatePhysics, Attached, Pose]]
    th_SetOwnerWeapon,    \* [Participants -> BOOLEAN]: the timer is pending
    th_BindPlayerState,   \* [Participants -> BOOLEAN]: the timer is pending
    Controller,           \* [Participants -> {NULL, "pc"}]: GetController()
    PlayerState,          \* [Participants -> {NULL, "ps"}]: GetPlayerState()
    hasBegunPlay,         \* [Participants -> BOOLEAN]
    Fuc_Dele_UpdateHp,    \* [Participants -> Nat]: OnUpdateHp subscriptions
    reqQ,                 \* [Clients -> Seq(Rpcs)]: Server RPCs in flight
    resQ,                 \* [Clients -> Seq(Rpcs)]: NetMulticast RPCs in flight
    crashed,              \* [Participants -> BOOLEAN]: the process has died
    last,                 \* the handler that ran last and what it called
    events,               \* number of external events so far
    retries,              \* per binding: checks made so far, and when the target came
    ragHist,              \* IsRagdoll after each of the latest consecutive ResPressC
    reqTags,              \* per Server RPC in flight: the item equipped where it was called
    resTags,              \* per NetMulticast RPC in flight: the items equipped before it
    lastTag,              \* the items equipped before the NetMulticast RPC just received
    ownerLog,             \* per participant: the owner of each item, the ammo refreshes
    relaySeq              \* the requests of each originator, numbered as they are issued

vars == <<EquipWeapon, ControlPitch, IsRagdoll, mesh, th_SetOwnerWeapon,
          th_BindPlayerState, Controller, PlayerState, hasBegunPlay,
          Fuc_Dele_UpdateHp, reqQ, resQ, crashed, last, events,
          retries, ragHist, reqTags, resTags, lastTag, ownerLog,
          relaySeq>>

obsRelay == <<reqTags, resTags, lastTag>>

HasAuthority(p) == p = Server

\* Cast<IWeaponInterface>(x) is non-null
ImplementsWeaponInterface(x) == x \in Weapons

\* Cast<AWeapon>(x) is non-null
IsAWeapon(x) == x \in Weapons

\* One call the actor makes on a collaborator: the method, the object, the argument.
Fx(call, on, arg) == [call |-> call, on |-> on, arg |-> arg]

BoolStr(b) == IF b THEN "true" ELSE "false"

\* ------------------------------------------------ the actor on one node
\* The members of the actor on participant p, with the calls made so far by the
\* running handler (fx), the NetMulticast RPCs it has sent (out) and its result.
Ctx(p) ==
    [ auth |-> HasAuthority(p),
      EquipWeapon |-> EquipWeapon[p],
      ControlPitch |-> ControlPitch[p],
      IsRagdoll |-> IsRagdoll[p],
      mesh |-> mesh[p],
      th_SetOwnerWeapon |-> th_SetOwnerWeapon[p],
      th_BindPlayerState |-> th_BindPlayerState[p],
      Controller |-> Controller[p],
      PlayerState |-> PlayerState[p],
      Fuc_Dele_UpdateHp |-> Fuc_Dele_UpdateHp[p],
      crashed |-> crashed[p],
      fx |-> << >>,
      out |-> << >>,
      ret |-> "void" ]

Call(c, call, on, arg) == [c EXCEPT !.fx = Append(@, Fx(call, on, arg))]

\* USkeletalMeshComponent::SetSimulatePhysics: a body that starts simulating leaves
\* its attach parent and its relative pose.
SetSimulatePhysics(m, b) ==
    IF b THEN [SimulatePhysics |-> TRUE, Attached |-> FALSE, Pose |-> "simulated"]
         ELSE [m EXCEPT !.SimulatePhysics = FALSE]

\* The relative pose DoGetup restores: location (0, 0, -97), rotation (0, 270, 0).
GetupPose == "loc(0,0,-97) rot(0,270,0)"

DoRagdoll(c) ==
    Call([c EXCEPT !.IsRagdoll = TRUE, !.mesh = SetSimulatePhysics(@, TRUE)],
         "SetSimulatePhysics", "mesh", "true")

\* Mutant: standing up leaves the mesh where the simulation put it.
M_DoGetup_NoReattach(c) ==
    Call([c EXCEPT !.IsRagdoll = FALSE, !.mesh = SetSimulatePhysics(@, FALSE)],
         "SetSimulatePhysics", "mesh", "false")

DoGetup(c) ==
    LET c1 == Call([c EXCEPT !.IsRagdoll = FALSE, !.mesh = SetSimulatePhysics(@, FALSE)],
                   "SetSimulatePhysics", "mesh", "false")
        c2 == Call([c1 EXCEPT !.mesh.Attached = TRUE], "AttachToComponent", "mesh", "root")
    IN  Call([c2 EXCEPT !.mesh.Pose = GetupPose],
             "SetRelativeLocationAndRotation", "mesh", GetupPose)

\* Mutant: only a health notification below zero ragdolls.
M_OnUpdateHp_BelowZeroOnly(c, CurrentHp) ==
    IF CurrentHp < 0 THEN DoRagdoll(c) ELSE c

\* Mutant: a health notification above zero stands the actor up.
M_OnUpdateHp_GetsUpWhenAlive(c, CurrentHp) ==
    IF CurrentHp <= 0 THEN DoRagdoll(c) ELSE DoGetup(c)

OnUpdateHp_Implementation(c, CurrentHp) ==
    IF CurrentHp <= 0 THEN DoRagdoll(c) ELSE c

ResPressTrigger_Implementation(c) ==
    IF ImplementsWeaponInterface(c.EquipWeapon)
    THEN Call(c, "PressTrigger", c.EquipWeapon, "")
    ELSE c

\* Mutant: the response only ever ragdolls.
M_ResPressC_AlwaysRagdolls(c) == DoRagdoll(c)

ResPressC_Implementation(c) ==
    IF c.IsRagdoll THEN DoGetup(c) ELSE DoRagdoll(c)

\* Mutant: the reload response pulls the trigger.
M_ResPressReload_CallsTrigger(c) ==
    IF ImplementsWeaponInterface(c.EquipWeapon)
    THEN Call(c, "PressTrigger", c.EquipWeapon, "")
    ELSE c

ResPressReload_Implementation(c) ==
    IF ImplementsWeaponInterface(c.EquipWeapon)
    THEN Call(c, "PressReload", c.EquipWeapon, "")
    ELSE c

\* The _Implementation a NetMulticast RPC runs on the node that receives it.
ResImplementation(c, rpc) ==
    CASE rpc = RpcTrigger -> ResPressTrigger_Implementation(c)
      [] rpc = RpcC -> ResPressC_Implementation(c)
      [] rpc = RpcReload -> ResPressReload_Implementation(c)

\* UFUNCTION(NetMulticast, Reliable) called on the authority: the body runs on the
\* authority at once and the RPC is sent to every client.
Multicast(c, rpc) ==
    [ResImplementation(c, rpc) EXCEPT !.out = Append(@, rpc)]

\* Mutant: an absent item drops the request.
M_ReqPressTrigger_DropsWithoutItem(c, IsCanUse) ==
    IF ImplementsWeaponInterface(c.EquipWeapon)
    THEN LET c1 == Call(c, "IsCanUse", c.EquipWeapon, BoolStr(IsCanUse))
         IN  IF IsCanUse = FALSE THEN c1 ELSE Multicast(c1, RpcTrigger)
    ELSE c

\* Mutant: the result of IsCanUse is ignored.
M_ReqPressTrigger_IgnoresCanUse(c, IsCanUse) ==
    IF ImplementsWeaponInterface(c.EquipWeapon)
    THEN Multicast(Call(c, "IsCanUse", c.EquipWeapon, BoolStr(IsCanUse)), RpcTrigger)
    ELSE Multicast(c, RpcTrigger)

\* Mutant: the test of IsCanUse is inverted.
M_ReqPressTrigger_InvertedCanUse(c, IsCanUse) ==
    IF ImplementsWeaponInterface(c.EquipWeapon)
    THEN LET c1 == Call(c, "IsCanUse", c.EquipWeapon, BoolStr(IsCanUse))
         IN  IF IsCanUse = TRUE THEN c1 ELSE Multicast(c1, RpcTrigger)
    ELSE Multicast(c, RpcTrigger)

ReqPressTrigger_Implementation(c, IsCanUse) ==
    IF ImplementsWeaponInterface(c.EquipWeapon)
    THEN LET c1 == Call(c, "IsCanUse", c.EquipWeapon, BoolStr(IsCanUse))
         IN  IF IsCanUse = FALSE THEN c1 ELSE Multicast(c1, RpcTrigger)
    ELSE Multicast(c, RpcTrigger)

\* Mutant: the toggle request is answered twice.
M_ReqPressC_AnswersTwice(c) == Multicast(Multicast(c, RpcC), RpcC)

ReqPressC_Implementation(c) == Multicast(c, RpcC)

\* Mutant: a reload request is answered only with a weapon equipped.
M_ReqPressReload_NeedsWeapon(c) ==
    IF ImplementsWeaponInterface(c.EquipWeapon) THEN Multicast(c, RpcReload) ELSE c

ReqPressReload_Implementation(c) == Multicast(c, RpcReload)

\* The _Implementation a Server RPC runs on the authority.
ReqImplementation(c, rpc, IsCanUse) ==
    CASE rpc = RpcTrigger -> ReqPressTrigger_Implementation(c, IsCanUse)
      [] rpc = RpcC -> ReqPressC_Implementation(c)
      [] rpc = RpcReload -> ReqPressReload_Implementation(c)

\* Mutant: the ammo display is refreshed before the owner is set.
M_TestSetOwnerWeapon_RefreshFirst(c, ub) ==
    IF c.Controller # NULL
    THEN IF c.EquipWeapon = NULL
         THEN IF ub = "crash" THEN [c EXCEPT !.crashed = TRUE] ELSE c
         ELSE IF IsAWeapon(c.EquipWeapon)
              THEN Call(Call(Call(c, "OwnChar", c.EquipWeapon, "this"),
                             "UpdateAmmoToHud", c.EquipWeapon, ""),
                        "SetOwner", c.EquipWeapon, c.Controller)
              ELSE Call(c, "SetOwner", c.EquipWeapon, c.Controller)
    ELSE Call([c EXCEPT !.th_SetOwnerWeapon = TRUE],
              "SetTimer", "th_SetOwnerWeapon", "TestSetOwnerWeapon")

\* EquipWeapon->SetOwner(...) through a null EquipWeapon is undefined behaviour:
\* the process dies, or the call goes through without effect.
TestSetOwnerWeapon(c, ub) ==
    IF c.Controller # NULL
    THEN IF c.EquipWeapon = NULL
         THEN IF ub = "crash" THEN [c EXCEPT !.crashed = TRUE] ELSE c
         ELSE LET c1 == Call(c, "SetOwner", c.EquipWeapon, c.Controller)
              IN  IF IsAWeapon(c.EquipWeapon)
                  THEN Call(Call(c1, "OwnChar", c.EquipWeapon, "this"),
                            "UpdateAmmoToHud", c.EquipWeapon, "")
                  ELSE c1
    ELSE Call([c EXCEPT !.th_SetOwnerWeapon = TRUE],
              "SetTimer", "th_SetOwnerWeapon", "TestSetOwnerWeapon")

SetEquipWeapon(c, Weapon, ub) ==
    LET c1 == TestSetOwnerWeapon([c EXCEPT !.EquipWeapon = Weapon], ub)
    IN  IF c1.crashed THEN c1 ELSE [c1 EXCEPT !.ret = c1.EquipWeapon]

\* Mutant: a check that finds no session state schedules no retry.
M_BindPlayerState_GivesUp(c, CurHp) ==
    IF c.PlayerState # NULL
    THEN OnUpdateHp_Implementation(
             Call([c EXCEPT !.Fuc_Dele_UpdateHp = @ + 1],
                  "AddUFunction", c.PlayerState, "OnUpdateHp"), CurHp)
    ELSE c

BindPlayerState(c, CurHp) ==
    IF c.PlayerState # NULL
    THEN OnUpdateHp_Implementation(
             Call([c EXCEPT !.Fuc_Dele_UpdateHp = @ + 1],
                  "AddUFunction", c.PlayerState, "OnUpdateHp"), CurHp)
    ELSE Call([c EXCEPT !.th_BindPlayerState = TRUE],
              "SetTimer", "th_BindPlayerState", "BindPlayerState")

BeginPlay(c, CurHp) == BindPlayerState(c, CurHp)

\* Mutant: every participant writes ControlPitch.
M_Tick_NoAuthorityCheck(c, Pitch) == [c EXCEPT !.ControlPitch = Pitch]

Tick(c, Pitch) ==
    IF c.auth = TRUE THEN [c EXCEPT !.ControlPitch = Pitch] ELSE c

\* *EventInstigator->GetName() through a null EventInstigator is undefined
\* behaviour: the process dies, or the call goes through.
TakeDamage(c, DamageAmount, EventInstigator, ub) ==
    IF EventInstigator = NULL /\ ub = "crash"
    THEN [c EXCEPT !.crashed = TRUE]
    ELSE LET c1 == IF c.PlayerState # NULL
                   THEN Call(c, "AddDamage", c.PlayerState, ToString(DamageAmount))
                   ELSE c
         IN  [c1 EXCEPT !.ret = "0.0"]

\* ------------------------------------------------------------ the state
MeshAtSpawn == [SimulatePhysics |-> FALSE, Attached |-> TRUE, Pose |-> "asset"]

Init ==
    /\ EquipWeapon = [p \in Participants |-> NULL]
    /\ ControlPitch = [p \in Participants |-> 0]
    /\ IsRagdoll = [p \in Participants |-> FALSE]
    /\ mesh = [p \in Participants |-> MeshAtSpawn]
    /\ th_SetOwnerWeapon = [p \in Participants |-> FALSE]
    /\ th_BindPlayerState = [p \in Participants |-> FALSE]
    /\ Controller = [p \in Participants |-> NULL]
    /\ PlayerState = [p \in Participants |-> NULL]
    /\ hasBegunPlay = [p \in Participants |-> FALSE]
    /\ Fuc_Dele_UpdateHp = [p \in Participants |-> 0]
    /\ reqQ = [c \in Clients |-> << >>]
    /\ resQ = [c \in Clients |-> << >>]
    /\ crashed = [p \in Participants |-> FALSE]
    /\ last = [op |-> "AShootingGameCharacter", at |-> Server, n |-> 0,
               fx |-> << >>, out |-> << >>, ret |-> "void"]
    /\ events = 0
    /\ retries = [p \in Participants |-> [b \in Bindings |-> NoRetry]]
    /\ ragHist = [p \in Participants |-> << FALSE >>]
    /\ reqTags = [c \in Clients |-> << >>]
    /\ resTags = [c \in Clients |-> << >>]
    /\ lastTag = NoTag
    /\ ownerLog = [p \in Participants |-> NoOwnerLog]
    /\ relaySeq = NoRelaySeq

\* The handler op ran on participant p to its end and left the actor as c: the
\* members are stored, the NetMulticast RPCs it sent are in flight to every client.
Commit(p, c, op, n) ==
    /\ \A cl \in Clients : Len(resQ[cl]) + Len(c.out) <= MaxQueue
    /\ EquipWeapon' = [EquipWeapon EXCEPT ![p] = c.EquipWeapon]
    /\ ControlPitch' = [ControlPitch EXCEPT ![p] = c.ControlPitch]
    /\ IsRagdoll' = [IsRagdoll EXCEPT ![p] = c.IsRagdoll]
    /\ mesh' = [mesh EXCEPT ![p] = c.mesh]
    /\ th_SetOwnerWeapon' = [th_SetOwnerWeapon EXCEPT ![p] = c.th_SetOwnerWeapon]
    /\ th_BindPlayerState' = [th_BindPlayerState EXCEPT ![p] = c.th_BindPlayerState]
    /\ Fuc_Dele_UpdateHp' = [Fuc_Dele_UpdateHp EXCEPT ![p] = c.Fuc_Dele_UpdateHp]
    /\ crashed' = [crashed EXCEPT ![p] = c.crashed]
    /\ last' = [op |-> op, at |-> p, n |-> n, fx |-> c.fx, out |-> c.out, ret |-> c.ret]

\* Commit, for a handler that receives nothing from the network.
Local(p, c, op, n) ==
    /\ Commit(p, c, op, n)
    /\ resQ' = [cl \in Clients |-> resQ[cl] \o c.out]
    /\ UNCHANGED <<reqQ, Controller, PlayerState, hasBegunPlay>>

Alive(p) == ~crashed[p]

\* ---------------------------------------------------------- the events
\* The engine starts the actor on participant p.
EvBeginPlay(p, CurHp) ==
    /\ Alive(p) /\ ~hasBegunPlay[p]
    /\ Commit(p, BeginPlay(Ctx(p), CurHp), "BeginPlay", CurHp)
    /\ hasBegunPlay' = [hasBegunPlay EXCEPT ![p] = TRUE]
    /\ UNCHANGED <<reqQ, resQ, Controller, PlayerState>>

EvTick(p, Pitch) ==
    /\ Alive(p) /\ hasBegunPlay[p]
    /\ Local(p, Tick(Ctx(p), Pitch), "Tick", Pitch)

EvTakeDamage(p, DamageAmount, EventInstigator, ub) ==
    /\ Alive(p)
    /\ Local(p, TakeDamage(Ctx(p), DamageAmount, EventInstigator, ub),
             "TakeDamage", DamageAmount)

EvSetEquipWeapon(p, Weapon, ub) ==
    /\ Alive(p)
    /\ Local(p, SetEquipWeapon(Ctx(p), Weapon, ub), "SetEquipWeapon", 0)

\* The PlayerState broadcasts Fuc_Dele_UpdateHp_TwoParams to its subscribers.
EvOnUpdateHp(p, CurrentHp) ==
    /\ Alive(p) /\ Fuc_Dele_UpdateHp[p] > 0
    /\ Local(p, OnUpdateHp_Implementation(Ctx(p), CurrentHp), "OnUpdateHp", CurrentHp)

\* Mutant: a client runs the response itself as it sends the request.
M_CallServerRpc_RunsResponseLocally(p, rpc, IsCanUse, op) ==
    /\ Alive(p) /\ Controller[p] # NULL
    /\ IF HasAuthority(p)
       THEN Local(p, ReqImplementation(Ctx(p), rpc, IsCanUse), op, 0)
       ELSE /\ Len(reqQ[p]) < MaxQueue
            /\ reqQ' = [reqQ EXCEPT ![p] = Append(@, rpc)]
            /\ Commit(p, ResImplementation(Ctx(p), rpc), op, 0)
            /\ UNCHANGED <<resQ, Controller, PlayerState, hasBegunPlay>>

\* A UFUNCTION(Server, Reliable) called on participant p: on the authority the
\* body runs at once, on a client the RPC is sent to the authority.
CallServerRpc(p, rpc, IsCanUse, op) ==
    /\ Alive(p) /\ Controller[p] # NULL
    /\ IF HasAuthority(p)
       THEN Local(p, ReqImplementation(Ctx(p), rpc, IsCanUse), op, 0)
       ELSE /\ Len(reqQ[p]) < MaxQueue
            /\ reqQ' = [reqQ EXCEPT ![p] = Append(@, rpc)]
            /\ Commit(p, Ctx(p), op, 0)
            /\ UNCHANGED <<resQ, Controller, PlayerState, hasBegunPlay>>

EvPressTrigger(p, IsCanUse) == CallServerRpc(p, RpcTrigger, IsCanUse, "PressTrigger")

EvPressTestKey(p) == CallServerRpc(p, RpcC, TRUE, "PressTestKey")

EvPressReload(p) == CallServerRpc(p, RpcReload, TRUE, "PressReload")

\* The authority receives the oldest Server RPC of client cl.
NetServerReceive(cl, IsCanUse) ==
    /\ Alive(Server) /\ reqQ[cl] # << >>
    /\ LET c == ReqImplementation(Ctx(Server), Head(reqQ[cl]), IsCanUse)
       IN  /\ Commit(Server, c, "Req" \o Head(reqQ[cl]), 0)
           /\ resQ' = [k \in Clients |-> resQ[k] \o c.out]
    /\ reqQ' = [reqQ EXCEPT ![cl] = Tail(@)]
    /\ UNCHANGED <<Controller, PlayerState, hasBegunPlay>>

\* Client cl receives the oldest NetMulticast RPC sent to it.
NetClientReceive(cl) ==
    /\ Alive(cl) /\ resQ[cl] # << >>
    /\ Commit(cl, ResImplementation(Ctx(cl), Head(resQ[cl])), "Res" \o Head(resQ[cl]), 0)
    /\ resQ' = [resQ EXCEPT ![cl] = Tail(@)]
    /\ UNCHANGED <<reqQ, Controller, PlayerState, hasBegunPlay>>

\* The one-shot timer th_SetOwnerWeapon fires on participant p.
TimerSetOwnerWeapon(p, ub) ==
    /\ Alive(p) /\ th_SetOwnerWeapon[p]
    /\ Local(p, TestSetOwnerWeapon([Ctx(p) EXCEPT !.th_SetOwnerWeapon = FALSE], ub),
             "TestSetOwnerWeapon", 0)

\* The one-shot timer th_BindPlayerState fires on participant p.
TimerBindPlayerState(p, CurHp) ==
    /\ Alive(p) /\ th_BindPlayerState[p]
    /\ Local(p, BindPlayerState([Ctx(p) EXCEPT !.th_BindPlayerState = FALSE], CurHp),
             "BindPlayerState", CurHp)

\* A controller possesses the actor on participant p: GetController() becomes valid.
EvPossess(p) ==
    /\ Alive(p) /\ Controller[p] = NULL
    /\ Controller' = [Controller EXCEPT ![p] = "pc"]
    /\ Commit(p, Ctx(p), "Possess", 0)
    /\ UNCHANGED <<reqQ, resQ, PlayerState, hasBegunPlay>>

\* The session state of the actor reaches participant p: GetPlayerState() becomes valid.
EvPlayerState(p) ==
    /\ Alive(p) /\ PlayerState[p] = NULL
    /\ PlayerState' = [PlayerState EXCEPT ![p] = "ps"]
    /\ Commit(p, Ctx(p), "PlayerState", 0)
    /\ UNCHANGED <<reqQ, resQ, Controller, hasBegunPlay>>

\* DOREPLIFETIME(AShootingGameCharacter, EquipWeapon): the client's copy follows.
RepEquipWeapon(cl) ==
    /\ Alive(cl) /\ EquipWeapon[cl] # EquipWeapon[Server]
    /\ Commit(cl, [Ctx(cl) EXCEPT !.EquipWeapon = EquipWeapon[Server]], "OnRep_EquipWeapon", 0)
    /\ UNCHANGED <<reqQ, resQ, Controller, PlayerState, hasBegunPlay>>

\* DOREPLIFETIME(AShootingGameCharacter, ControlPitch): the client's copy follows.
RepControlPitch(cl) ==
    /\ Alive(cl) /\ ControlPitch[cl] # ControlPitch[Server]
    /\ Commit(cl, [Ctx(cl) EXCEPT !.ControlPitch = ControlPitch[Server]],
              "OnRep_ControlPitch", ControlPitch[Server])
    /\ UNCHANGED <<reqQ, resQ, Controller, PlayerState, hasBegunPlay>>

\* ------------------------------------------------------ specifications
\* What the engine, the player and the game do to the actor.
External ==
    \/ \E p \in Participants, hp \in HpValues : EvBeginPlay(p, hp)
    \/ \E p \in Participants : EvPossess(p)
    \/ \E p \in Participants : EvPlayerState(p)
    \/ \E p \in Participants, v \in PitchValues : EvTick(p, v)
    \/ \E p \in Participants, d \in DamageValues, i \in {NULL, "pc"}, ub \in UbOutcomes :
          EvTakeDamage(p, d, i, ub)
    \/ \E p \in Participants, w \in Items \cup {NULL}, ub \in UbOutcomes :
          EvSetEquipWeapon(p, w, ub)
    \/ \E p \in Participants, hp \in HpValues : EvOnUpdateHp(p, hp)
    \/ \E p \in Participants, b \in BOOLEAN : EvPressTrigger(p, b)
    \/ \E p \in Participants : EvPressTestKey(p)
    \/ \E p \in Participants : EvPressReload(p)

\* What the network, the timer manager and replication deliver by themselves.
Internal ==
    \/ \E cl \in Clients, b \in BOOLEAN : NetServerReceive(cl, b)
    \/ \E cl \in Clients : NetClientReceive(cl)
    \/ \E p \in Participants, ub \in UbOutcomes : TimerSetOwnerWeapon(p, ub)
    \/ \E p \in Participants, hp \in HpValues : TimerBindPlayerState(p, hp)
    \/ \E cl \in Clients : RepEquipWeapon(cl)
    \/ \E cl \in Clients : RepControlPitch(cl)

\* One step of the actor: every handler, at most MaxEvents external events.
Step ==
    \/ /\ events < MaxEvents
       /\ External
       /\ events' = events + 1
    \/ /\ Internal
       /\ UNCHANGED events

\* ----------------------------------------------------------- observers
Range(s) == {s[i] : i \in DOMAIN s}

Calls(l, call) == {i \in DOMAIN l.fx : l.fx[i].call = call}

\* Handler run l executed ResPressC_Implementation on its participant.
HandledResPressC(l) == l.op = "Res" \o RpcC \/ RpcC \in Range(l.out)

\* Handler run l executed DoRagdoll or DoGetup.
TouchedRagdoll(l) == Calls(l, "SetSimulatePhysics") # {}

Last3(s) == IF Len(s) > 3 THEN Tail(s) ELSE s

\* ragHist[p]: IsRagdoll on p before and after each of the latest ResPressC that p
\* handled one after the other, no other ragdoll or stand-up in between.
ObserveRagdoll ==
    ragHist' = [p \in Participants |->
        IF last'.at # p THEN ragHist[p]
        ELSE IF HandledResPressC(last') THEN Last3(Append(ragHist[p], IsRagdoll'[p]))
        ELSE IF TouchedRagdoll(last') THEN << IsRagdoll'[p] >>
        ELSE ragHist[p]]

\* One more check of a binding: it bound (the bind action ran) or it did not.
Checked(r, bound) ==
    [r EXCEPT !.checks = @ + 1, !.binds = IF bound THEN Append(@, r.checks) ELSE @]

\* The target of a binding became available, after r.checks checks.
Came(r) == IF r.cameAt = -1 THEN [r EXCEPT !.cameAt = r.checks] ELSE r

\* retries[p][b]: the checks of binding b made on p since the binding was started
\* (BeginPlay for the health binding, the latest SetEquipWeapon for the weapon
\* binding), the number of checks made when its target became available (-1: not
\* yet), and the checks that ran the bind action.
ObserveRetries ==
    retries' = [p \in Participants |->
        IF last'.at # p THEN retries[p]
        ELSE LET l == last'
                 w == retries[p]["weapon"]
                 h == retries[p]["health"]
                 boundW == Calls(l, "SetOwner") # {}
                 boundH == Calls(l, "AddUFunction") # {}
             IN  CASE l.op = "SetEquipWeapon" ->
                        [retries[p] EXCEPT !["weapon"] = Checked(
                            [NoRetry EXCEPT !.cameAt = IF Controller[p] # NULL THEN 0 ELSE -1],
                            boundW)]
                   [] l.op = "TestSetOwnerWeapon" ->
                        [retries[p] EXCEPT !["weapon"] = Checked(w, boundW)]
                   [] l.op = "Possess" ->
                        [retries[p] EXCEPT !["weapon"] = Came(w)]
                   [] l.op \in {"BeginPlay", "BindPlayerState"} ->
                        [retries[p] EXCEPT !["health"] = Checked(h, boundH)]
                   [] l.op = "PlayerState" ->
                        [retries[p] EXCEPT !["health"] = Came(h)]
                   [] OTHER -> retries[p]]

Grew(q, cl) == Len(q'[cl]) > Len(q[cl])

Shrank(q, cl) == Len(q'[cl]) < Len(q[cl])

\* reqTags and resTags run beside reqQ and resQ: a Server RPC is tagged with the item
\* equipped on the client that calls it, a NetMulticast RPC with that item (issued)
\* and with the item equipped on the authority as it validates the request
\* (validated). lastTag is the tag of the NetMulticast RPC a client has just received.
ObserveRelay ==
    LET issued == IF \E cl \in Clients : Shrank(reqQ, cl)
                  THEN Head(reqTags[CHOOSE cl \in Clients : Shrank(reqQ, cl)])
                  ELSE EquipWeapon[Server]
    IN  /\ reqTags' = [cl \in Clients |->
               IF Grew(reqQ, cl) THEN Append(reqTags[cl], EquipWeapon[cl])
               ELSE IF Shrank(reqQ, cl) THEN Tail(reqTags[cl])
               ELSE reqTags[cl]]
        /\ resTags' = [cl \in Clients |->
               IF Grew(resQ, cl)
               THEN Append(resTags[cl], [issued |-> issued, validated |-> EquipWeapon[Server]])
               ELSE IF Shrank(resQ, cl) THEN Tail(resTags[cl])
               ELSE resTags[cl]]
        /\ lastTag' = IF \E cl \in Clients : Shrank(resQ, cl)
                      THEN Head(resTags[CHOOSE cl \in Clients : Shrank(resQ, cl)])
                      ELSE NoTag

\* The items on which handler run l made the call.
CalledOn(l, call) == {l.fx[i].on : i \in Calls(l, call)}

\* ownerLog[p]: what AActor::SetOwner has left in each item (owner), the weapons whose
\* ammo display was refreshed (shown), whether SetEquipWeapon was ever called
\* (started), the SetOwner calls made on the equipped item since it was assigned
\* (sets), and the items that were replaced while GetController() was invalid and
\* have not been equipped again (dropped).
ObserveOwner ==
    ownerLog' = [p \in Participants |->
        IF last'.at # p THEN ownerLog[p]
        ELSE LET l == last'
                 o == ownerLog[p]
                 n == Cardinality(Calls(l, "SetOwner"))
                 assigned == l.op \in {"SetEquipWeapon", "OnRep_EquipWeapon"}
                 gone == IF assigned /\ Controller[p] = NULL /\ EquipWeapon[p] # NULL
                            /\ EquipWeapon'[p] # EquipWeapon[p]
                         THEN {EquipWeapon[p]} ELSE {}
             IN  [ owner |-> [w \in Items |->
                       IF w \in CalledOn(l, "SetOwner") THEN Controller[p] ELSE o.owner[w]],
                   shown |-> o.shown \cup CalledOn(l, "UpdateAmmoToHud"),
                   started |-> o.started \/ l.op = "SetEquipWeapon",
                   sets |-> IF assigned THEN n ELSE o.sets + n,
                   dropped |-> IF assigned THEN (o.dropped \cup gone) \ {EquipWeapon'[p]}
                               ELSE o.dropped ]]

\* The input handler that calls Server RPC rpc.
PressOf(rpc) ==
    CASE rpc = RpcTrigger -> "PressTrigger"
      [] rpc = RpcC -> "PressTestKey"
      [] rpc = RpcReload -> "PressReload"

\* n times x.
Repeat(x, n) == [i \in 1..n |-> x]

\* How many times rpc occurs in the NetMulticast RPCs out.
Occurs(out, rpc) == Cardinality({i \in DOMAIN out : out[i] = rpc})

\* relaySeq: every request gets the next number of its originator and action as it
\* is issued (issued); reqIds and resIds run beside reqQ and resQ and hold the number
\* of each RPC in flight, resIds with the originator; answered[o][r] are the
\* requests of o the authority sent a response r for, in the order it sent them,
\* dropped[o] those it sent nothing for, and handled[p][o][r] those whose response
\* r participant p has run, in the order it ran them.
ObserveSeq ==
    LET l == last'
        q == relaySeq
        pressed == l.at = Server /\ l.op \in {PressOf(r) : r \in Rpcs}
        received == \E cl \in Clients : Shrank(reqQ, cl)
        o == IF pressed THEN Server ELSE CHOOSE cl \in Clients : Shrank(reqQ, cl)
        rpc == IF pressed THEN CHOOSE r \in Rpcs : PressOf(r) = l.op ELSE Head(reqQ[o])
        id == IF pressed THEN q.issued[Server][rpc] + 1 ELSE Head(q.reqIds[o])
        sent == [r \in Rpcs |-> Repeat(id, Occurs(l.out, r))]
        \* the authority handled request id of o
        q1 == IF pressed \/ received
              THEN [q EXCEPT
                      !.issued[o][rpc] = IF pressed THEN id ELSE @,
                      !.reqIds = [cl \in Clients |->
                                    IF Shrank(reqQ, cl) THEN Tail(@[cl]) ELSE @[cl]],
                      !.resIds = [cl \in Clients |->
                                    @[cl] \o Repeat([orig |-> o, id |-> id], Len(l.out))],
                      !.answered[o] = [r \in Rpcs |-> @[r] \o sent[r]],
                      !.dropped[o] = IF l.out = << >> THEN @ \cup {<<rpc, id>>} ELSE @,
                      !.handled[Server][o] = [r \in Rpcs |-> @[r] \o sent[r]]]
              ELSE q
        \* a client called a Server RPC
        q2 == [q1 EXCEPT
                 !.issued = [p \in Participants |-> [r \in Rpcs |->
                     IF p \in Clients /\ Grew(reqQ, p) /\ reqQ'[p][Len(reqQ'[p])] = r
                     THEN @[p][r] + 1 ELSE @[p][r]]],
                 !.reqIds = [cl \in Clients |->
                     IF Grew(reqQ, cl)
                     THEN Append(@[cl], q1.issued[cl][reqQ'[cl][Len(reqQ'[cl])]] + 1)
                     ELSE @[cl]]]
        \* a client ran the oldest NetMulticast RPC sent to it
    IN  relaySeq' =
          [q2 EXCEPT
             !.resIds = [cl \in Clients |->
                 IF Shrank(resQ, cl) THEN Tail(@[cl]) ELSE @[cl]],
             !.handled = [p \in Participants |->
                 IF p \in Clients /\ Shrank(resQ, p)
                 THEN LET tag == Head(q.resIds[p])
                      IN  [@[p] EXCEPT ![tag.orig][Head(resQ[p])] = Append(@, tag.id)]
                 ELSE @[p]]]

\* A binding is followed for MaxRetry retries.
RetriesLeft ==
    \A p \in Participants, b \in Bindings : retries'[p][b].checks <= MaxRetry + 1

Next == Step /\ UNCHANGED <<retries, ragHist, obsRelay, ownerLog, relaySeq>>

Spec == Init /\ [][Next]_vars

\* The actor with the ResPressC it handles observed.
NextRagdoll == Step /\ ObserveRagdoll /\ UNCHANGED <<retries, obsRelay, ownerLog, relaySeq>>

SpecRagdoll == Init /\ [][NextRagdoll]_vars

\* The actor with the checks of its two bindings observed.
NextBind ==
    /\ Step /\ ObserveRetries /\ RetriesLeft
    /\ UNCHANGED <<ragHist, obsRelay, ownerLog, relaySeq>>

SpecBind == Init /\ [][NextBind]_vars

\* The actor with the items equipped as each RPC was sent observed.
NextRelay == Step /\ ObserveRelay /\ UNCHANGED <<retries, ragHist, ownerLog, relaySeq>>

SpecRelay == Init /\ [][NextRelay]_vars

\* The actor with the owner of each item and the ammo refreshes observed.
NextOwner == Step /\ ObserveOwner /\ UNCHANGED <<retries, ragHist, obsRelay, relaySeq>>

SpecOwner == Init /\ [][NextOwner]_vars

\* The actor with its requests numbered and followed to every participant.
NextSeq == Step /\ ObserveSeq /\ UNCHANGED <<retries, ragHist, obsRelay, ownerLog>>

SpecSeq == Init /\ [][NextSeq]_vars

\* ------------------------------------------------------------- claims
\* Handler run l is the authority handling a request rpc: the Server RPC of a
\* client delivered, or called on the authority itself.
HandledReq(l, rpc, press) ==
    l.at = Server /\ l.op \in {"Req" \o rpc, press}

HandledReqTrigger(l) == HandledReq(l, RpcTrigger, "PressTrigger")

\* In handler run l the IsCanUse query on item w returned v.
CanUseReturned(l, w, v) ==
    \E i \in Calls(l, "IsCanUse") : l.fx[i].on = w /\ l.fx[i].arg = BoolStr(v)

\* Every client was sent exactly the RPCs rpcs by this step, in this order.
SentToAll(rpcs) == \A cl \in Clients : resQ'[cl] = resQ[cl] \o rpcs

\* C1: the authority's handling of a Trigger request emits a Trigger response if and
\* only if, when the request is handled, no item with the weapon capability is
\* equipped or the equipped item's IsCanUse query returns true.
C1_TriggerResponseIff ==
    [][HandledReqTrigger(last') =>
         LET w == EquipWeapon[Server]
             emitted == last'.out = << RpcTrigger >> /\ SentToAll(<< RpcTrigger >>)
             silent == last'.out = << >> /\ SentToAll(<< >>)
         IN  /\ emitted \/ silent
             /\ emitted <=> (~ImplementsWeaponInterface(w) \/ CanUseReturned(last', w, TRUE))
      ]_vars

\* C1 witness: a client's Trigger request was handled with a weapon equipped that
\* reported it can be used, and the response is in flight.
C1_Witness ==
    /\ last.op = "Req" \o RpcTrigger /\ last.at = Server
    /\ EquipWeapon[Server] \in Weapons
    /\ CanUseReturned(last, EquipWeapon[Server], TRUE)
    /\ last.out = << RpcTrigger >>
    /\ \E cl \in Clients : resQ[cl] # << >>

\* C2 as stated: with no item equipped, the authority's handling of a Trigger
\* request generates no Trigger response.
C2_Original ==
    [][(HandledReqTrigger(last') /\ EquipWeapon[Server] = NULL) =>
         (last'.out = << >> /\ SentToAll(<< >>))
      ]_vars

\* C2 amended: with no item equipped, the authority's handling of a Trigger request
\* does generate a Trigger response, sent to every client; handling it invokes no
\* trigger action on the authority, nor on a participant that has no item with the
\* weapon capability equipped when it handles the response.
C2_NoItemRespondsWithoutEffect ==
    [][/\ (HandledReqTrigger(last') /\ EquipWeapon[Server] = NULL) =>
            /\ last'.out = << RpcTrigger >> /\ SentToAll(<< RpcTrigger >>)
            /\ last'.fx = << >>
       /\ \A cl \in Clients :
            (last'.op = "Res" \o RpcTrigger /\ last'.at = cl
               /\ ~ImplementsWeaponInterface(EquipWeapon[cl])) => last'.fx = << >>
      ]_vars

\* C2 witness: the authority handled a Trigger request with no item equipped and the
\* response went out.
C2_Witness ==
    /\ HandledReqTrigger(last)
    /\ EquipWeapon[Server] = NULL
    /\ last.out = << RpcTrigger >> /\ last.fx = << >>

\* C3: when the equipped item's IsCanUse returns false as the authority handles a
\* Trigger request, the request is dropped in silence: no response and no other
\* message is sent to any participant, the item's trigger action is invoked nowhere,
\* and the equipped-item reference and the ragdoll flag of every participant stay
\* as they were.
C3_CannotUseDropsSilently ==
    [][(HandledReqTrigger(last') /\ ImplementsWeaponInterface(EquipWeapon[Server])
          /\ CanUseReturned(last', EquipWeapon[Server], FALSE)) =>
         /\ last'.out = << >> /\ SentToAll(<< >>)
         /\ Calls(last', "PressTrigger") = {}
         /\ last'.fx = << Fx("IsCanUse", EquipWeapon[Server], "false") >>
         /\ UNCHANGED <<EquipWeapon, IsRagdoll, mesh, crashed>>
      ]_vars

\* C3 witness: a client's Trigger request was handled while the equipped weapon
\* reported it cannot be used; nothing is in flight to the client.
C3_Witness ==
    /\ last.op = "Req" \o RpcTrigger /\ last.at = Server
    /\ EquipWeapon[Server] \in Weapons
    /\ CanUseReturned(last, EquipWeapon[Server], FALSE)
    /\ last.out = << >>
    /\ \A cl \in Clients : resQ[cl] = << >>

\* Handler run l executed the _Implementation of NetMulticast RPC rpc on p: p is a
\* client that received it, or the authority that sent it.
RanResponse(l, p, rpc) ==
    l.at = p /\ (l.op = "Res" \o rpc \/ (HasAuthority(p) /\ rpc \in Range(l.out)))

CapabilityOf(rpc) == IF rpc = RpcTrigger THEN "PressTrigger" ELSE "PressReload"

CapabilityCalls(l) == Calls(l, "PressTrigger") \cup Calls(l, "PressReload")

\* C4 as stated: handling a Trigger or Reload response invokes exactly one capability
\* call, on the item equipped on that participant as the response is handled.
C4_Original ==
    [][\A p \in Participants, rpc \in {RpcTrigger, RpcReload} :
         RanResponse(last', p, rpc) =>
           /\ Cardinality(CapabilityCalls(last')) = 1
           /\ \A i \in CapabilityCalls(last') :
                last'.fx[i] = Fx(CapabilityOf(rpc), EquipWeapon[p], "")
      ]_vars

\* C4 amended: handling a Trigger or Reload response on a participant invokes exactly
\* one capability call (trigger, respectively reload) when an item with the weapon
\* capability is equipped on that participant as the response is handled, on that
\* item whatever was equipped when the request was issued or validated, and no
\* capability call when no such item is equipped.
C4_ResponseUsesCurrentItem ==
    [][\A p \in Participants, rpc \in {RpcTrigger, RpcReload} :
         RanResponse(last', p, rpc) =>
           IF ImplementsWeaponInterface(EquipWeapon[p])
           THEN /\ Cardinality(CapabilityCalls(last')) = 1
                /\ \A i \in CapabilityCalls(last') :
                     last'.fx[i] = Fx(CapabilityOf(rpc), EquipWeapon[p], "")
           ELSE CapabilityCalls(last') = {}
      ]_vars

\* C4 witness: a client handled a Reload response with a weapon equipped that is
\* neither the item it had when it issued the request nor the item the authority
\* had when it validated it, and reloaded the weapon it has now.
C4_Witness ==
    \E cl \in Clients :
      /\ last.op = "Res" \o RpcReload /\ last.at = cl
      /\ EquipWeapon[cl] \in Weapons
      /\ lastTag.issued \in Weapons \ {EquipWeapon[cl]}
      /\ lastTag.validated \in Weapons \ {EquipWeapon[cl]}
      /\ last.fx = << Fx("PressReload", EquipWeapon[cl], "") >>

\* The retry timer of binding b is pending on p.
RetryPending(p, b) ==
    IF b = "weapon" THEN th_SetOwnerWeapon[p] ELSE th_BindPlayerState[p]

\* Binding b on p, whose target became available after N = cameAt checks: the bind
\* action has run at most once, only at check N, it has run once check N is made,
\* and no retry is pending after it.
BoundOnceAtArrival(p, b) ==
    LET r == retries[p][b]
    IN  /\ Len(r.binds) <= 1
        /\ r.binds # << >> => (r.cameAt # -1 /\ r.binds[1] = r.cameAt /\ ~RetryPending(p, b))
        /\ (r.cameAt # -1 /\ r.checks > r.cameAt) => r.binds # << >>

\* C5: for either binding (the weapon owner in TestSetOwnerWeapon, the health
\* notification in BindPlayerState), when the target first becomes available after
\* exactly N retry intervals the bind action executes exactly once, at the N-th
\* check, not before, and no retry is scheduled after it. The weapon binding is
\* taken from the latest SetEquipWeapon, with an item to bind.
C5_BindsOnceAtNthCheck ==
    \A p \in Participants, b \in Bindings :
      (Alive(p) /\ (b = "weapon" => EquipWeapon[p] # NULL)) => BoundOnceAtArrival(p, b)

\* The health binding alone does what C5 says.
HealthBoundOnceAtArrival ==
    \A p \in Participants : Alive(p) => BoundOnceAtArrival(p, "health")

\* The health binding bound on a participant at its second retry.
HealthBoundAtSecondRetry ==
    \E p \in Participants : retries[p]["health"].binds = << 2 >>

\* C6: two ToggleRagdoll responses handled by a participant one after the other, with
\* no other ragdoll or stand-up between them, return its ragdoll flag to the value
\* it had before the first.
C6_TwoTogglesRestoreFlag ==
    \A p \in Participants : Len(ragHist[p]) = 3 => ragHist[p][3] = ragHist[p][1]

\* C6 witness: a client that was ragdolled handled two ToggleRagdoll responses in a
\* row and is ragdolled again.
C6_Witness ==
    \E cl \in Clients :
      /\ last.op = "Res" \o RpcC /\ last.at = cl
      /\ ragHist[cl] = << TRUE, FALSE, TRUE >>
      /\ IsRagdoll[cl] = TRUE

RagdollFx == << Fx("SetSimulatePhysics", "mesh", "true") >>

GetupFx ==
    << Fx("SetSimulatePhysics", "mesh", "false"),
       Fx("AttachToComponent", "mesh", "root"),
       Fx("SetRelativeLocationAndRotation", "mesh", GetupPose) >>

\* C7: handling one ToggleRagdoll response on a participant: a false ragdoll flag
\* becomes true and physics simulation is enabled exactly once, with no stand-up
\* effect; a true flag becomes false, physics simulation is disabled and the mesh is
\* attached again at the fixed relative pose, with no physics-enable effect.
C7_ToggleEffects ==
    [][\A p \in Participants :
         RanResponse(last', p, RpcC) =>
           IF IsRagdoll[p] = FALSE
           THEN /\ IsRagdoll'[p] = TRUE
                /\ last'.fx = RagdollFx
                /\ mesh'[p].SimulatePhysics = TRUE
           ELSE /\ IsRagdoll'[p] = FALSE
                /\ last'.fx = GetupFx
                /\ mesh'[p] = [SimulatePhysics |-> FALSE, Attached |-> TRUE,
                               Pose |-> GetupPose]
      ]_vars

\* C7 witness: a client handled a ToggleRagdoll response while ragdolled and stands
\* at the fixed relative pose.
C7_Witness ==
    \E cl \in Clients :
      /\ last.op = "Res" \o RpcC /\ last.at = cl
      /\ last.fx = GetupFx
      /\ IsRagdoll[cl] = FALSE
      /\ mesh[cl].Pose = GetupPose /\ mesh[cl].Attached

\* C8 as stated: the ragdoll flag of a participant changes only when that
\* participant handles a ToggleRagdoll response.
C8_Original ==
    [][\A p \in Participants :
         IsRagdoll'[p] # IsRagdoll[p] => RanResponse(last', p, RpcC)
      ]_vars

\* Handler run l delivered a health notification with current HP n to p: OnUpdateHp
\* called by the PlayerState, or by BindPlayerState as the binding succeeds.
NotifiedHp(l, p) ==
    /\ l.at = p
    /\ \/ l.op = "OnUpdateHp"
       \/ l.op \in {"BeginPlay", "BindPlayerState"} /\ Calls(l, "AddUFunction") # {}

\* C8 amended: the ragdoll flag of a participant changes only when that participant
\* handles a ToggleRagdoll response, or a health-change notification whose current
\* HP is at most 0 (OnUpdateHp, also the one BindPlayerState issues as the health
\* binding succeeds), which sets it; every other event (Trigger and Reload requests
\* and responses, equip-item assignment, tick, damage application, a health
\* notification above 0, a binding check that does not bind) leaves it unchanged.
C8_RagdollFlagWriters ==
    [][\A p \in Participants :
         IsRagdoll'[p] # IsRagdoll[p] =>
           \/ RanResponse(last', p, RpcC)
           \/ NotifiedHp(last', p) /\ last'.n <= 0 /\ IsRagdoll'[p] = TRUE
      ]_vars

\* C8 witness: a health notification with current HP at most 0 has just ragdolled
\* the authority.
C8_Witness ==
    /\ last.op = "OnUpdateHp" /\ last.at = Server /\ last.n <= 0
    /\ last.fx = RagdollFx
    /\ IsRagdoll[Server] = TRUE

\* C9: all participants start with the same ragdoll flag, so in every state where
\* every ToggleRagdoll response sent has been handled by every participant, all
\* participants hold the same ragdoll flag.
C9_SameFlagEverywhere ==
    (\A p \in Participants : Alive(p)) /\ (\A cl \in Clients : RpcC \notin Range(resQ[cl]))
      => \A p, q \in Participants : IsRagdoll[p] = IsRagdoll[q]

\* C10: ControlPitch is written by the actor only in the Tick of the participant
\* that has authority: a Tick elsewhere leaves it unchanged and no other handler
\* writes it on any participant; a client's copy changes only as replication
\* delivers the authority's value.
C10_PitchWrittenByAuthorityTick ==
    [][\A p \in Participants :
         ControlPitch'[p] # ControlPitch[p] =>
           /\ last'.at = p
           /\ \/ last'.op = "Tick" /\ HasAuthority(p) /\ ControlPitch'[p] = last'.n
              \/ last'.op = "OnRep_ControlPitch" /\ ~HasAuthority(p)
                   /\ ControlPitch'[p] = ControlPitch[Server]
      ]_vars

\* C10 witness: a client ticked with a control rotation pitch other than its
\* ControlPitch, which stayed as it was.
C10_Witness ==
    \E cl \in Clients :
      /\ last.op = "Tick" /\ last.at = cl
      /\ last.n # ControlPitch[cl]

\* In handler run l every call among calls on an item comes after a SetOwner call on
\* that same item with the controller pc.
AfterSetOwner(l, calls, pc) ==
    \A i \in DOMAIN l.fx :
      l.fx[i].call \in calls =>
        \E j \in 1..(i - 1) : l.fx[j] = Fx("SetOwner", l.fx[i].on, pc)

\* C11: the item-specific bind actions (recording the owning character on the weapon,
\* refreshing the ammo display) are made on an item only after that item's owner has
\* been set to the actor's controller in the same check, and in every state each
\* item whose ammo display has been refreshed has the actor's controller as owner.
C11_OwnerSetBeforeAmmoRefresh ==
    [][\A p \in Participants :
         /\ last'.at = p =>
              AfterSetOwner(last', {"OwnChar", "UpdateAmmoToHud"}, Controller[p])
         /\ \A w \in ownerLog'[p].shown :
              Controller'[p] # NULL /\ ownerLog'[p].owner[w] = Controller'[p]
      ]_vars

\* C11 witness: the retry timer found the controller and bound the equipped weapon:
\* owner, owning character, ammo display, in this order.
C11_Witness ==
    \E p \in Participants :
      /\ last.op = "TestSetOwnerWeapon" /\ last.at = p
      /\ EquipWeapon[p] \in Weapons
      /\ last.fx = << Fx("SetOwner", EquipWeapon[p], Controller[p]),
                      Fx("OwnChar", EquipWeapon[p], "this"),
                      Fx("UpdateAmmoToHud", EquipWeapon[p], "") >>
      /\ EquipWeapon[p] \in ownerLog[p].shown

\* Handler run l is TakeDamage on p, called with DamageAmount = l.n.
RanTakeDamage(l, p) == l.op = "TakeDamage" /\ l.at = p

\* What the claim says of one TakeDamage on p: it returns 0; the session state, when
\* bound, receives exactly one AddDamage of the given amount and nothing else is
\* called; the ragdoll flag and the equipped item stay as they were.
TakeDamageForwards(p) ==
    /\ last'.ret = "0.0"
    /\ last'.fx = IF PlayerState[p] # NULL
                  THEN << Fx("AddDamage", PlayerState[p], ToString(last'.n)) >>
                  ELSE << >>
    /\ last'.out = << >>
    /\ IsRagdoll'[p] = IsRagdoll[p] /\ EquipWeapon'[p] = EquipWeapon[p]

\* C12: applying damage of any amount returns 0 to the caller; a bound session state
\* receives exactly one damage-add equal to the amount, an unbound one means no
\* damage-add and still the result 0; the ragdoll flag and the equipped-item
\* reference are not changed by the call.
C12_DamageForwardedReturnsZero ==
    [][\A p \in Participants : RanTakeDamage(last', p) => TakeDamageForwards(p)]_vars

\* Every TakeDamage that comes back to its caller does what C12 says.
TakeDamageForwardsWhenItReturns ==
    [][\A p \in Participants :
         (RanTakeDamage(last', p) /\ ~crashed'[p]) => TakeDamageForwards(p)]_vars

\* A TakeDamage of 25 with the session state bound came back with 0 and forwarded 25.
TakeDamageForwarded25 ==
    \E p \in Participants :
      /\ RanTakeDamage(last, p) /\ last.n = 25 /\ last.ret = "0.0"
      /\ last.fx = << Fx("AddDamage", "ps", "25") >>

\* A TakeDamage with no EventInstigator ended the process before it returned.
TakeDamageCrashed ==
    \E p \in Participants : RanTakeDamage(last, p) /\ crashed[p] /\ last.ret = "void"

\* C13: ToggleRagdoll and Reload requests have no precondition: the authority's
\* handling of each one sends exactly one response, of the type of the request, to
\* every client, whatever the ragdoll flag, the equipped item and the item's
\* IsCanUse result are.
C13_ToggleAndReloadAlwaysAnswered ==
    [][\A rpc \in {RpcC, RpcReload} :
         HandledReq(last', rpc, PressOf(rpc)) =>
           (last'.out = << rpc >> /\ SentToAll(<< rpc >>))
      ]_vars

\* C13 witness: the authority, ragdolled and with no item equipped, handled the
\* Reload request of a client and the Reload response is in flight.
C13_Witness ==
    /\ last.op = "Req" \o RpcReload /\ last.at = Server
    /\ IsRagdoll[Server] /\ EquipWeapon[Server] = NULL
    /\ last.out = << RpcReload >>
    /\ \E cl \in Clients : resQ[cl] # << >> /\ resQ[cl][Len(resQ[cl])] = RpcReload

IsPrefix(s, t) == Len(s) <= Len(t) /\ \A i \in DOMAIN s : s[i] = t[i]

Increasing(s) == \A i, j \in DOMAIN s : i < j => s[i] < s[j]

\* The requests r of originator o still on their way to the authority.
ReqInFlight(o, r) ==
    IF o \in Clients
    THEN {relaySeq.reqIds[o][i] : i \in {k \in DOMAIN reqQ[o] : reqQ[o][k] = r}}
    ELSE {}

\* The responses r to requests of originator o still on their way to client cl.
ResInFlight(cl, o, r) ==
    {relaySeq.resIds[cl][i].id :
        i \in {k \in DOMAIN resQ[cl] : resQ[cl][k] = r /\ relaySeq.resIds[cl][k].orig = o}}

\* C14: for one originator and one action type, every participant runs the
\* responses in the order in which the originator issued the requests: what a
\* participant has run is a prefix of what the authority answered, which is in
\* issue order and has no request twice; it is all of it once nothing is on its way
\* to that participant; and a request that is neither on its way nor answered is a
\* Trigger request the authority dropped.
C14_ResponsesInIssueOrder ==
    \A o \in Participants, r \in Rpcs :
      LET a == relaySeq.answered[o][r]
      IN  /\ Increasing(a)
          /\ relaySeq.handled[Server][o][r] = a
          /\ \A cl \in Clients :
                /\ IsPrefix(relaySeq.handled[cl][o][r], a)
                /\ ResInFlight(cl, o, r) = {} => relaySeq.handled[cl][o][r] = a
          /\ \A id \in 1..relaySeq.issued[o][r] :
                \/ id \in ReqInFlight(o, r)
                \/ id \in Range(a) /\ <<r, id>> \notin relaySeq.dropped[o]
                \/ id \notin Range(a) /\ r = RpcTrigger /\ <<r, id>> \in relaySeq.dropped[o]

\* C14 witness: a client issued two Trigger requests; the authority dropped the
\* first on IsCanUse and answered the second, and the client has run the response
\* to the second alone.
C14_Witness ==
    \E cl \in Clients :
      /\ last.op = "Res" \o RpcTrigger /\ last.at = cl
      /\ relaySeq.issued[cl][RpcTrigger] = 2
      /\ relaySeq.dropped[cl] = {<<RpcTrigger, 1>>}
      /\ relaySeq.handled[cl][cl][RpcTrigger] = << 2 >>
      /\ relaySeq.handled[Server][cl][RpcTrigger] = << 2 >>

\* A client has run, in issue order, the responses to two ToggleRagdoll requests of
\* the authority's own player.
RanTwoTogglesOfServerInOrder ==
    \E cl \in Clients : relaySeq.handled[cl][Server][RpcC] = << 1, 2 >>

\* The calls of handler run l other than the IsCanUse query.
EffectsOf(l) ==
    LET NotQuery(f) == f.call # "IsCanUse" IN SelectSeq(l.fx, NotQuery)

\* C15: an input handler (PressTrigger, PressTestKey, PressReload) sends exactly one
\* request of its own action to the authority and does nothing else: on a client
\* the request is in flight and no member of the actor has changed; where the
\* authority handles a request (its own player's at once, a client's on delivery)
\* the item's trigger and reload actions and the change of the ragdoll flag are
\* those of the response handling, and there are none when no response is sent.
C15_IntentOnlySendsRequest ==
    [][\A rpc \in Rpcs :
         /\ \A cl \in Clients :
              (last'.at = cl /\ last'.op = PressOf(rpc)) =>
                /\ reqQ' = [reqQ EXCEPT ![cl] = Append(@, rpc)]
                /\ last'.fx = << >> /\ last'.out = << >>
                /\ UNCHANGED <<resQ, EquipWeapon, ControlPitch, IsRagdoll, mesh,
                               th_SetOwnerWeapon, th_BindPlayerState, Fuc_Dele_UpdateHp>>
         /\ HandledReq(last', rpc, PressOf(rpc)) =>
              LET res == ResImplementation(Ctx(Server), rpc)
              IN  /\ last'.out \in {<< >>, << rpc >>}
                  /\ last'.op = PressOf(rpc) => UNCHANGED reqQ
                  /\ EffectsOf(last') = IF last'.out = << >> THEN << >> ELSE res.fx
                  /\ IsRagdoll'[Server] =
                        IF last'.out = << >> THEN IsRagdoll[Server] ELSE res.IsRagdoll
                  /\ \A cl \in Clients : IsRagdoll'[cl] = IsRagdoll[cl]
      ]_vars

\* C15 witness: a client with a weapon equipped pressed the trigger: the Trigger
\* request is in flight and the weapon was not fired.
C15_Witness ==
    \E cl \in Clients :
      /\ last.op = "PressTrigger" /\ last.at = cl
      /\ EquipWeapon[cl] \in Weapons
      /\ reqQ[cl] = << RpcTrigger >>
      /\ last.fx = << >>

RetryWeaponFx == << Fx("SetTimer", "th_SetOwnerWeapon", "TestSetOwnerWeapon") >>

RetryHealthFx == << Fx("SetTimer", "th_BindPlayerState", "BindPlayerState") >>

\* C16: while the target of a binding (the controller for the weapon owner, the
\* session state for the health notification) stays unavailable, every check that
\* finds it unavailable schedules exactly one further retry and runs no bind
\* action, however many checks have been made; so wherever a binding has been
\* started and its target has never been available (neither is ever lost again
\* here, so: is not available now), its retry is pending and its bind action has
\* not run.
C16_RetriesWhileUnavailable ==
    [][\A p \in Participants :
         /\ (last'.at = p /\ last'.op \in {"SetEquipWeapon", "TestSetOwnerWeapon"}
                /\ Controller[p] = NULL) =>
              (last'.fx = RetryWeaponFx /\ th_SetOwnerWeapon'[p])
         /\ (last'.at = p /\ last'.op \in {"BeginPlay", "BindPlayerState"}
                /\ PlayerState[p] = NULL) =>
              (last'.fx = RetryHealthFx /\ th_BindPlayerState'[p])
         /\ (~crashed'[p] /\ ownerLog'[p].started /\ Controller'[p] = NULL) =>
              /\ th_SetOwnerWeapon'[p]
              /\ ownerLog'[p].shown = {}
              /\ \A w \in Items : ownerLog'[p].owner[w] = NULL
         /\ (~crashed'[p] /\ hasBegunPlay'[p] /\ PlayerState'[p] = NULL) =>
              /\ th_BindPlayerState'[p]
              /\ Fuc_Dele_UpdateHp'[p] = 0
      ]_vars

\* C16 witness: on one participant the health retry has just fired and found no
\* session state, the weapon retry is pending with no controller, and both go on.
C16_Witness ==
    \E p \in Participants :
      /\ last.op = "BindPlayerState" /\ last.at = p /\ last.fx = RetryHealthFx
      /\ PlayerState[p] = NULL /\ th_BindPlayerState[p]
      /\ ownerLog[p].started /\ Controller[p] = NULL /\ th_SetOwnerWeapon[p]

\* Handler run l is a check of the weapon-owner binding on p that found the
\* controller: TestSetOwnerWeapon called by SetEquipWeapon or by the retry timer.
RanOwnerBind(l, p) ==
    l.at = p /\ l.op \in {"SetEquipWeapon", "TestSetOwnerWeapon"} /\ Controller[p] # NULL

\* C17: whenever the weapon-owner bind action runs (TestSetOwnerWeapon finds the
\* controller, called by SetEquipWeapon or by a retry), the equipped-item reference
\* is present: SetOwner is invoked on the equipped item, never through an absent
\* one, and the check comes back.
C17_OwnerBindHasItem ==
    [][\A p \in Participants :
         RanOwnerBind(last', p) =>
           /\ EquipWeapon'[p] # NULL
           /\ CalledOn(last', "SetOwner") = {EquipWeapon'[p]}
           /\ ~crashed'[p]
      ]_vars

\* The retry timer found the controller with no item equipped and called SetOwner
\* through the null reference: the process is gone.
OwnerBindCrashedOnAbsentItem ==
    \E p \in Participants :
      /\ last.op = "TestSetOwnerWeapon" /\ last.at = p
      /\ Controller[p] # NULL /\ EquipWeapon[p] = NULL /\ crashed[p]

\* Every weapon-owner bind with an item equipped sets the owner of that item.
OwnerBindWithItemSetsOwner ==
    [][\A p \in Participants :
         (RanOwnerBind(last', p) /\ EquipWeapon'[p] # NULL) =>
           (CalledOn(last', "SetOwner") = {EquipWeapon'[p]} /\ ~crashed'[p])
      ]_vars

\* The SetTimer calls of handler run l on the handle th_SetOwnerWeapon.
WeaponRetriesSet(l) == {i \in Calls(l, "SetTimer") : l.fx[i].on = "th_SetOwnerWeapon"}

\* C18: at most one weapon-owner retry is pending at any time, every check setting
\* the one handle th_SetOwnerWeapon at most once, however often SetEquipWeapon is
\* called before the controller exists; once the controller is available the owner
\* of the equipped item is set exactly once, by the check that finds the controller
\* and on the item equipped at that moment, and no retry stays pending;
\* and an item that was equipped and replaced while the controller was unavailable
\* never has its owner set.
C18_OneRetryOwnerSetOnce ==
    [][\A p \in Participants :
         /\ last'.at = p => Cardinality(WeaponRetriesSet(last')) <= 1
         /\ (last'.at = p /\ last'.op = "TestSetOwnerWeapon" /\ Controller[p] # NULL
                /\ EquipWeapon'[p] # NULL) =>
              /\ Cardinality(Calls(last', "SetOwner")) = 1
              /\ CalledOn(last', "SetOwner") = {EquipWeapon'[p]}
              /\ ~th_SetOwnerWeapon'[p]
         /\ ownerLog'[p].sets <= 1
         /\ \A w \in ownerLog'[p].dropped : ownerLog'[p].owner[w] = NULL
      ]_vars

\* The parts of C18 the actor keeps to: a check sets the retry timer at most once,
\* and an item replaced while the controller was unavailable, not equipped since,
\* has no owner.
ReplacedItemsHaveNoOwner ==
    [][\A p \in Participants :
         /\ last'.at = p => Cardinality(WeaponRetriesSet(last')) <= 1
         /\ \A w \in ownerLog'[p].dropped : ownerLog'[p].owner[w] = NULL
      ]_vars

\* The owner of one equipped weapon was set by SetEquipWeapon and then once more by
\* the retry timer an earlier SetEquipWeapon had left pending.
OwnerSetTwice ==
    \E p \in Participants :
      /\ last.op = "TestSetOwnerWeapon" /\ last.at = p
      /\ EquipWeapon[p] \in Weapons
      /\ ownerLog[p].sets = 2
      /\ Calls(last, "UpdateAmmoToHud") # {}

\* w1 was replaced by w2 before the controller came; the retry then bound w2 alone.
ReplacedItemLeftUnowned ==
    \E p \in Participants :
      /\ last.op = "TestSetOwnerWeapon" /\ last.at = p
      /\ ownerLog[p].dropped = {"w1"} /\ EquipWeapon[p] = "w2"
      /\ ownerLog[p].owner["w1"] = NULL /\ ownerLog[p].owner["w2"] = Controller[p]
      /\ ownerLog[p].sets = 1

\* C19: a health-change notification (OnUpdateHp called by the session state, or by
\* BindPlayerState as the health binding succeeds) with current HP at most 0 sets
\* the ragdoll flag and enables physics simulation; with current HP above 0 it
\* leaves the ragdoll flag and the mesh as they were; in neither case is a set
\* ragdoll flag cleared.
C19_HealthNotificationRagdolls ==
    [][\A p \in Participants :
         NotifiedHp(last', p) =>
           /\ IF last'.n <= 0
              THEN /\ IsRagdoll'[p] = TRUE
                   /\ mesh'[p].SimulatePhysics = TRUE
                   /\ Cardinality(Calls(last', "SetSimulatePhysics")) = 1
                   /\ last'.fx[Len(last'.fx)] = Fx("SetSimulatePhysics", "mesh", "true")
              ELSE /\ IsRagdoll'[p] = IsRagdoll[p]
                   /\ mesh'[p] = mesh[p]
                   /\ Calls(last', "SetSimulatePhysics") = {}
           /\ IsRagdoll[p] => IsRagdoll'[p]
      ]_vars

\* C19 witness: the health retry found the session state with current HP 0: it
\* subscribed, notified itself and the actor is ragdolled.
C19_Witness ==
    \E p \in Participants :
      /\ last.op = "BindPlayerState" /\ last.at = p /\ last.n = 0
      /\ last.fx = << Fx("AddUFunction", "ps", "OnUpdateHp") >> \o RagdollFx
      /\ IsRagdoll[p] /\ mesh[p].SimulatePhysics

\* A ragdolled participant was notified of a current HP above 0 and stays ragdolled.
RagdollKeptOnHealing ==
    \E p \in Participants :
      /\ last.op = "OnUpdateHp" /\ last.at = p /\ last.n > 0
      /\ last.fx = << >> /\ IsRagdoll[p]

====
